---------------------------- MODULE Spec2Model ----------------------------
(***************************************************************************)
(* A model of the Prometheus exposition-format parser: the character-level *)
(* grammar (token, value, label set, sample, comment, blank line), the     *)
(* input driver InputIter, the aggregation of parse_complete into a        *)
(* name -> Metric map, and the final sort by name.                         *)
(*                                                                         *)
(* A character is a one-character string; a &str / String is a sequence of *)
(* characters.  Two characters outside ASCII are written by their code     *)
(* point: "U+00E9" (a Latin letter, char::is_alphabetic) and "U+0663" (an  *)
(* Arabic-Indic digit, char::is_numeric and not alphabetic).               *)
(*                                                                         *)
(* A parser result models nom's IResult<&str, O, (&str, ErrorKind)>:       *)
(*   Ok((rest, o))          is  [ok |-> TRUE,  rest |-> rest, val |-> o]   *)
(*   Err(Error((at, kind))) is  [ok |-> FALSE, rest |-> at,   val |-> kind]*)
(***************************************************************************)
EXTENDS Integers, Sequences, FiniteSets, TLC

Ok(rest, o) == [ok |-> TRUE, rest |-> rest, val |-> o]

Error(at, kind) == [ok |-> FALSE, rest |-> at, val |-> kind]

(***************************************************************************)
(* Characters                                                              *)
(***************************************************************************)
AsciiUpper == {"A","B","C","D","E","F","G","H","I","J","K","L","M",
               "N","O","P","Q","R","S","T","U","V","W","X","Y","Z"}

AsciiLower == {"a","b","c","d","e","f","g","h","i","j","k","l","m",
               "n","o","p","q","r","s","t","u","v","w","x","y","z"}

AsciiDigit == {"0","1","2","3","4","5","6","7","8","9"}

\* The printable ASCII characters of codes 32..95 in code order:
\* PrintableLow[i] has code 31 + i.
PrintableLow ==
    <<" ","!","\"","#","$","%","&","'","(",")","*","+",",","-",".","/",
      "0","1","2","3","4","5","6","7","8","9",":",";","<","=",">","?",
      "@","A","B","C","D","E","F","G","H","I","J","K","L","M","N","O",
      "P","Q","R","S","T","U","V","W","X","Y","Z","[","\\","]","^","_">>

\* The printable ASCII characters of codes 97..126 in code order:
\* PrintableHigh[i] has code 96 + i.
PrintableHigh ==
    <<"a","b","c","d","e","f","g","h","i","j","k","l","m","n","o",
      "p","q","r","s","t","u","v","w","x","y","z","{","|","}","~">>

\* The bytes of the UTF-8 encoding of a character (what String::cmp compares).
Utf8(c) ==
    CASE c = "\t" -> <<9>>
      [] c = "\n" -> <<10>>
      [] c = "\r" -> <<13>>
      [] c = "U+00E9" -> <<195, 169>>
      [] c = "U+0663" -> <<217, 163>>
      [] \E i \in 1..Len(PrintableLow) : PrintableLow[i] = c ->
            <<31 + (CHOOSE i \in 1..Len(PrintableLow) : PrintableLow[i] = c)>>
      [] OTHER ->
            <<96 + (CHOOSE i \in 1..Len(PrintableHigh) : PrintableHigh[i] = c)>>

\* char::is_alphabetic
is_alphabetic(c) == c \in AsciiUpper \cup AsciiLower \cup {"U+00E9"}

\* char::is_numeric
is_numeric(c) == c \in AsciiDigit \cup {"U+0663"}

\* char::is_alphanumeric
is_alphanumeric(c) == is_alphabetic(c) \/ is_numeric(c)

Drop(s, n) == SubSeq(s, n + 1, Len(s))

Take(s, n) == SubSeq(s, 1, n)

\* Is p a prefix of s?
StartsWith(s, p) == Len(p) <= Len(s) /\ Take(s, Len(p)) = p

\* The characters of the model.
Chars ==
    { PrintableLow[j] : j \in 1..Len(PrintableLow) }
    \cup { PrintableHigh[j] : j \in 1..Len(PrintableHigh) }
    \cup {"\t", "\n", "\r", "U+00E9", "U+0663"}

\* The length of the longest prefix of s, from position i on, whose
\* characters are all in S (take_while).
RECURSIVE SpanFrom(_, _, _)
SpanFrom(S, s, i) ==
    IF i <= Len(s) /\ s[i] \in S THEN SpanFrom(S, s, i + 1) ELSE i - 1

\* The length of the longest prefix of s whose characters are all in S.
Span(S, s) == SpanFrom(S, s, 1)

(***************************************************************************)
(* nom combinators used by the grammar                                     *)
(*                                                                         *)
(* Where a combinator takes parsers as arguments, a parser is named by a   *)
(* tuple: <<"space1">>, <<"tag", t>>, <<"char", c>>, <<"opt", p>>,         *)
(* <<"preceded", p, q>>, <<"tuple", ps>>, <<"token_parser">>, ...;         *)
(* apply(p, i) runs the parser p names on the input i.                     *)
(***************************************************************************)
RECURSIVE apply(_, _)
RECURSIVE tuple_from(_, _)

\* nom::bytes::complete::tag
tag(t, i) == IF StartsWith(i, t) THEN Ok(Drop(i, Len(t)), t) ELSE Error(i, "Tag")

\* nom::character::complete::char
char(c, i) ==
    IF Len(i) > 0 /\ i[1] = c THEN Ok(Drop(i, 1), c) ELSE Error(i, "Char")

\* nom::character::complete::newline
newline(i) == char("\n", i)

SpaceChars == {" ", "\t"}

IsSpace(c) == c \in SpaceChars

\* nom::character::complete::space0
space0(i) == LET n == Span(SpaceChars, i) IN Ok(Drop(i, n), Take(i, n))

\* nom::character::complete::space1
space1(i) ==
    LET n == Span(SpaceChars, i)
    IN  IF n = 0 THEN Error(i, "Space") ELSE Ok(Drop(i, n), Take(i, n))

\* line_ending taking the end of the input for a line ending too.
line_ending_or_eof(i) ==
    IF Len(i) = 0 THEN Ok(i, <<>>)
    ELSE IF StartsWith(i, <<"\n">>) THEN Ok(Drop(i, 1), <<"\n">>)
    ELSE IF StartsWith(i, <<"\r", "\n">>) THEN Ok(Drop(i, 2), <<"\r", "\n">>)
    ELSE Error(i, "CrLf")

\* nom::character::complete::line_ending
line_ending(i) ==
    IF StartsWith(i, <<"\n">>) THEN Ok(Drop(i, 1), <<"\n">>)
    ELSE IF StartsWith(i, <<"\r", "\n">>) THEN Ok(Drop(i, 2), <<"\r", "\n">>)
    ELSE Error(i, "CrLf")

NotEol == Chars \ {"\r", "\n"}

\* nom::character::complete::not_line_ending
not_line_ending(i) ==
    LET n == Span(NotEol, i)
    IN  IF n = Len(i) THEN Ok(<<>>, i)
        ELSE IF i[n + 1] = "\r" /\ ~StartsWith(Drop(i, n), <<"\r", "\n">>)
             THEN Error(i, "Tag")
        ELSE Ok(Drop(i, n), Take(i, n))

NotNlSp == Chars \ {"\n", " "}

\* nom::bytes::complete::is_not("\n ")
is_not_nl_sp(i) ==
    LET n == Span(NotNlSp, i)
    IN  IF n = 0 THEN Error(i, "IsNot") ELSE Ok(Drop(i, n), Take(i, n))

\* nom::combinator::opt, r being the result of the parser on i: Some(o), or
\* None with the input untouched.
opt(i, r) == IF r.ok THEN Ok(r.rest, <<r.val>>) ELSE Ok(i, <<>>)

\* Option::unwrap_or under map, r being the result of an opt.
unwrap_or(d, r) == Ok(r.rest, IF Len(r.val) = 0 THEN d ELSE r.val[1])

\* nom::branch::alt, a and b being the results of two parsers on the same
\* input: the first success, else the error of the last parser.
alt(a, b) == IF a.ok THEN a ELSE b

\* nom::combinator::value, r being the result of the parser.
value(v, r) == IF r.ok THEN Ok(r.rest, v) ELSE r

\* map(p, |_| ()), r being the result of p.
unit(r) == value(<<>>, r)

\* The step of nom::sequence::tuple after parser Head(ps) gave x: r holds
\* the outputs so far.
tuple_next(ps, r, x) ==
    IF x.ok THEN tuple_from(Tail(ps), Ok(x.rest, Append(r.val, x.val))) ELSE x

tuple_from(ps, r) ==
    IF Len(ps) = 0 THEN r ELSE tuple_next(ps, r, apply(Head(ps), r.rest))

\* nom::sequence::tuple: the parsers ps one after the other; the outputs of
\* all, or the error of the first that fails.
tuple(ps, i) == tuple_from(ps, Ok(i, <<>>))

\* Output k of a tuple result.
nth(k, r) == IF r.ok THEN Ok(r.rest, r.val[k]) ELSE r

\* nom::sequence::preceded
preceded(p, q, i) == nth(2, tuple(<<p, q>>, i))

\* nom::sequence::terminated
terminated(p, q, i) == nth(1, tuple(<<p, q>>, i))

\* nom::sequence::delimited
delimited(p, q, s, i) == nth(2, tuple(<<p, q, s>>, i))

\* Outputs 1 and 3 of a tuple result.
first_and_third(r) == IF r.ok THEN Ok(r.rest, <<r.val[1], r.val[3]>>) ELSE r

\* nom::sequence::separated_pair
separated_pair(p, s, q, i) == first_and_third(tuple(<<p, s, q>>, i))

(***************************************************************************)
(* Token grammar and blank lines (parser/common.rs)                        *)
(***************************************************************************)
is_simple(x) == is_alphabetic(x) \/ x = "_" \/ x = ":"

\* The closure of the second take_while of token_parser.
is_simple_or_alphanumeric(x) == is_simple(x) \/ is_alphanumeric(x)

\* The characters the two take_while of token_parser accept.
SimpleChars == { c \in Chars : is_simple(c) }

SimpleOrAlphanumericChars == { c \in Chars : is_simple_or_alphanumeric(c) }

token_parser(i) ==
    LET n == Span(SimpleChars, i)
        m == Span(SimpleOrAlphanumericChars, Drop(i, n))
    IN  IF n = 0 THEN Error(i, "TakeWhile1")
        ELSE Ok(Drop(i, n + m), Take(i, n + m))

empty_line_parser(i) == unit(terminated(<<"space0">>, <<"line_ending">>, i))

(***************************************************************************)
(* Comment grammar (comment.rs)                                            *)
(***************************************************************************)
MetricType == {"Untyped", "Counter", "Gauge", "Histogram", "Summary"}

\* The alt over the five type keywords, in the order of the source.
type_keyword(i) ==
    IF StartsWith(i, <<"c","o","u","n","t","e","r">>) THEN Ok(Drop(i, 7), "Counter")
    ELSE IF StartsWith(i, <<"g","a","u","g","e">>) THEN Ok(Drop(i, 5), "Gauge")
    ELSE IF StartsWith(i, <<"h","i","s","t","o","g","r","a","m">>)
         THEN Ok(Drop(i, 9), "Histogram")
    ELSE IF StartsWith(i, <<"u","n","t","y","p","e","d">>) THEN Ok(Drop(i, 7), "Untyped")
    ELSE IF StartsWith(i, <<"s","u","m","m","a","r","y">>) THEN Ok(Drop(i, 7), "Summary")
    ELSE Error(i, "Tag")

\* map(opt(preceded(space1, alt(...))), |x| x.unwrap_or(MetricType::Untyped))
metric_parser(i) ==
    unwrap_or("Untyped", opt(i, preceded(<<"space1">>, <<"type_keyword">>, i)))

type_parser(i) ==
    delimited(<<"tuple", << <<"tag", <<"#">>>>, <<"space1">>,
                            <<"tag", <<"T","Y","P","E">>>>, <<"space1">> >> >>,
              <<"tuple", << <<"token_parser">>, <<"metric_parser">> >> >>,
              <<"tuple", << <<"space0">>, <<"newline">> >> >>,
              i)

other_comment_parser(i) ==
    unit(delimited(<<"tag", <<"#">>>>, <<"not_line_ending">>, <<"newline">>, i))

help_parser(i) ==
    delimited(<<"tuple", << <<"tag", <<"#">>>>, <<"space1">>,
                            <<"tag", <<"H","E","L","P">>>>, <<"space1">> >> >>,
              <<"not_line_ending">>,
              <<"newline">>,
              i)

\* |(name, tpe)| CommentType::Type(name, tpe), r being the result of type_parser.
CommentType_Type(r) ==
    IF r.ok THEN Ok(r.rest, <<"Type", r.val[1], r.val[2]>>) ELSE r

\* |s| CommentType::Help(s), r being the result of help_parser.
CommentType_Help(r) == IF r.ok THEN Ok(r.rest, <<"Help", r.val>>) ELSE r

\* CommentType: <<"Type", name, type>>, <<"Help", text>> or <<"Other">>.
comment_parser(i) ==
    alt(CommentType_Type(type_parser(i)),
        alt(CommentType_Help(help_parser(i)),
            value(<<"Other">>, other_comment_parser(i))))

(***************************************************************************)
(* Numbers.  An Option<T> is <<>> (None) or <<v>> (Some(v)).               *)
(*                                                                         *)
(* An i64 is kept as sign and decimal digits without leading zeros, so     *)
(* that the overflow test of str::parse::<i64> is exact.  An f64 is kept   *)
(* as the exact decimal it is written as: digits * 10^exp with digits      *)
(* holding no leading and no trailing zero (<<>> for zero), which          *)
(* identifies two literals exactly when they denote the same number;       *)
(* rounding to 53 bits and overflow to infinity are outside the literals   *)
(* the model draws.                                                        *)
(***************************************************************************)
IsDigit(c) == c \in AsciiDigit

DigitVal(c) == Utf8(c)[1] - 48

\* ASCII lower case of a character (char::to_ascii_lowercase).
Lower(c) == IF c \in AsciiUpper THEN PrintableHigh[Utf8(c)[1] - 64] ELSE c

LowerStr(s) == [j \in 1..Len(s) |-> Lower(s[j])]

StripLeadingZeros(ds) == Drop(ds, Span({"0"}, ds))

RECURSIVE TrailingZeros(_)
TrailingZeros(ds) ==
    IF Len(ds) > 0 /\ ds[Len(ds)] = "0"
    THEN 1 + TrailingZeros(Take(ds, Len(ds) - 1))
    ELSE 0

\* a <= b for two digit strings without leading zeros.
RECURSIVE DigitsLeq(_, _)
DigitsLeq(a, b) ==
    IF Len(a) # Len(b) THEN Len(a) < Len(b)
    ELSE IF Len(a) = 0 THEN TRUE
    ELSE IF a[1] # b[1] THEN DigitVal(a[1]) < DigitVal(b[1])
    ELSE DigitsLeq(Tail(a), Tail(b))

\* i64::MAX = 9223372036854775807 and -i64::MIN, as digit strings.
I64MaxDigits ==
    <<"9","2","2","3","3","7","2","0","3","6","8","5","4","7","7","5","8","0","7">>

I64MinDigits ==
    <<"9","2","2","3","3","7","2","0","3","6","8","5","4","7","7","5","8","0","8">>

\* Is the first character of x the sign '-'?
IsNegative(x) == Len(x) > 0 /\ x[1] = "-"

\* x without its leading sign, if it has one.
Unsigned(x) == IF Len(x) > 0 /\ x[1] \in {"+", "-"} THEN Tail(x) ELSE x

\* The i64 of sign neg and magnitude mag (digits without leading zeros).
i64_magnitude(neg, mag) ==
    IF Len(mag) = 0 THEN << [neg |-> FALSE, digits |-> <<"0">>] >>
    ELSE IF ~DigitsLeq(mag, IF neg THEN I64MinDigits ELSE I64MaxDigits) THEN <<>>
    ELSE << [neg |-> neg, digits |-> mag] >>

i64_unsigned(neg, body) ==
    IF Len(body) = 0 \/ Span(AsciiDigit, body) # Len(body) THEN <<>>
    ELSE i64_magnitude(neg, StripLeadingZeros(body))

\* str::parse::<i64>().ok()
parse_i64(x) == i64_unsigned(IsNegative(x), Unsigned(x))

RECURSIVE DigitsToNat(_)
DigitsToNat(ds) ==
    IF Len(ds) = 0 THEN 0
    ELSE 10 * DigitsToNat(Take(ds, Len(ds) - 1)) + DigitVal(ds[Len(ds)])

NaN == [kind |-> "NaN", neg |-> FALSE, digits |-> <<>>, exp |-> 0]

Infinity(neg) == [kind |-> "Inf", neg |-> neg, digits |-> <<>>, exp |-> 0]

\* The finite f64 of mantissa lead (digits without leading zeros, tz of
\* them trailing zeros) and decimal exponent e.
Normalised(neg, lead, tz, e) ==
    IF Len(lead) = 0
    THEN [kind |-> "Num", neg |-> neg, digits |-> <<>>, exp |-> 0]
    ELSE [kind |-> "Num", neg |-> neg,
          digits |-> Take(lead, Len(lead) - tz), exp |-> e + tz]

\* The finite f64 written with mantissa digits ds (an integer) and decimal
\* exponent e.
Decimal(neg, ds, e) ==
    Normalised(neg, StripLeadingZeros(ds), TrailingZeros(StripLeadingZeros(ds)), e)

\* The digits eDig of an exponent of sign eNeg, after a mantissa mant with
\* fp digits behind the point.
f64_exponent(neg, mant, fp, eNeg, eDig) ==
    IF Len(eDig) = 0 \/ Span(AsciiDigit, eDig) # Len(eDig) THEN <<>>
    ELSE << Decimal(neg, mant,
                    (IF eNeg THEN 0 - DigitsToNat(eDig) ELSE DigitsToNat(eDig)) - fp) >>

\* What follows a mantissa mant with fp digits behind the point: nothing,
\* or Exp ::= [eE] Sign? Digit+ .
f64_mantissa(neg, mant, fp, r) ==
    IF Len(mant) = 0 THEN <<>>
    ELSE IF Len(r) = 0 THEN << Decimal(neg, mant, 0 - fp) >>
    ELSE IF r[1] \in {"e", "E"}
    THEN f64_exponent(neg, mant, fp, IsNegative(Tail(r)), Unsigned(Tail(r)))
    ELSE <<>>

\* body has ip digits, a point and fp digits.
f64_fraction(neg, body, ip, fp) ==
    f64_mantissa(neg, Take(body, ip) \o SubSeq(body, ip + 2, ip + 1 + fp), fp,
                 Drop(body, ip + 1 + fp))

\* Number ::= ( Digit+ | Digit+ '.' Digit* | Digit* '.' Digit+ ) Exp? ,
\* body starting with ip digits.
f64_number(neg, body, ip) ==
    IF Len(body) > ip /\ body[ip + 1] = "."
    THEN f64_fraction(neg, body, ip, Span(AsciiDigit, Drop(body, ip + 1)))
    ELSE f64_mantissa(neg, Take(body, ip), 0, Drop(body, ip))

f64_unsigned(neg, body) ==
    IF LowerStr(body) \in {<<"i","n","f">>, <<"i","n","f","i","n","i","t","y">>}
    THEN << Infinity(neg) >>
    ELSE IF LowerStr(body) = <<"n","a","n">>
    THEN << [NaN EXCEPT !.neg = neg] >>
    ELSE f64_number(neg, body, Span(AsciiDigit, body))

\* str::parse::<f64>(): Sign? ( 'inf' | 'infinity' | 'nan' | Number ).
parse_f64(x) == f64_unsigned(IsNegative(x), Unsigned(x))

(***************************************************************************)
(* Sample grammar (parser/samples.rs)                                      *)
(***************************************************************************)
\* The end of map_opt / map_res on input i: r is the result of the inner
\* parser, o what the closure made of its output.
map_option(i, r, kind, o) ==
    IF Len(o) = 0 THEN Error(i, kind) ELSE Ok(r.rest, o[1])

\* map_opt(_, |x: &str| x.parse::<i64>().ok()), r being the result of is_not.
map_opt_parse_i64(i, r) ==
    IF r.ok THEN map_option(i, r, "MapOpt", parse_i64(r.val)) ELSE r

\* map_res(_, |x: &str| x.parse::<f64>()), r being the result of is_not.
map_res_parse_f64(i, r) ==
    IF r.ok THEN map_option(i, r, "MapRes", parse_f64(r.val)) ELSE r

timestamp_parser(i) == map_opt_parse_i64(i, is_not_nl_sp(i))

value_parser(i) ==
    alt(value(NaN, tag(<<"N","a","N">>, i)),
        alt(value(Infinity(FALSE), tag(<<"+","I","n","f">>, i)),
            alt(value(Infinity(TRUE), tag(<<"-","I","n","f">>, i)),
                map_res_parse_f64(i, is_not_nl_sp(i)))))

\* The fold_many0 of tag_value_parser: an escape \n, \" or \\, or one
\* character other than line feed, quote and backslash, as long as one is there.
RECURSIVE fold_tag_value(_, _)
fold_tag_value(i, acc) ==
    IF Len(i) >= 2 /\ i[1] = "\\" /\ i[2] \in {"n", "\"", "\\"}
    THEN fold_tag_value(Drop(i, 2), Append(acc, IF i[2] = "n" THEN "\n" ELSE i[2]))
    ELSE IF Len(i) >= 1 /\ i[1] \notin {"\n", "\"", "\\"}
    THEN fold_tag_value(Drop(i, 1), Append(acc, i[1]))
    ELSE Ok(i, acc)

tag_value_parser(i) ==
    delimited(<<"char", "\"">>, <<"fold_tag_value">>, <<"char", "\"">>, i)

\* separated_pair(token_parser, char('='), tag_value_parser)
label_pair(i) ==
    separated_pair(<<"token_parser">>, <<"char", "=">>, <<"tag_value_parser">>, i)

\* The loop of nom's separated_list: a separator and a pair, as long as both
\* are there; a separator followed by no pair is left unconsumed.
RECURSIVE separated_list_loop(_, _)
separated_list_next(i, res, x) ==
    IF x.ok THEN separated_list_loop(x.rest, Append(res, x.val)) ELSE Ok(i, res)

separated_list_loop(i, res) ==
    separated_list_next(i, res, preceded(<<"char", ",">>, <<"label_pair">>, i))

separated_list(i) == separated_list_next(i, <<>>, label_pair(i))

\* collect keeping, for a key written several times, the value of its first
\* pair (an insert that does not replace).
collect_labels_first(l) ==
    [k \in {l[j][1] : j \in 1..Len(l)} |->
        l[CHOOSE j \in 1..Len(l) :
            l[j][1] = k /\ \A m \in 1..(j - 1) : l[m][1] # k][2]]

\* Vec<(String, String)> -> HashMap<String, String>: a later pair replaces
\* an earlier one of the same key.
collect_labels(l) ==
    [k \in {l[j][1] : j \in 1..Len(l)} |->
        l[CHOOSE j \in 1..Len(l) :
            l[j][1] = k /\ \A m \in (j + 1)..Len(l) : l[m][1] # k][2]]

\* |l| l.into_iter().collect(), r being the result of the list parser.
collect(r) == IF r.ok THEN Ok(r.rest, collect_labels(r.val)) ELSE r

\* The list_parser of labels_parser.
list_parser(i) ==
    collect(terminated(<<"separated_list">>, <<"opt", <<"char", ",">>>>, i))

labels_parser(i) ==
    unwrap_or(<<>>,
              opt(i, delimited(<<"char", "{">>, <<"list_parser">>, <<"char", "}">>, i)))

\* SampleEntry { name, labels, value, timestamp_ms }, r being the result of
\* the tuple of parse_sample.
SampleEntry(r) ==
    IF r.ok
    THEN Ok(r.rest, [name |-> r.val[1], labels |-> r.val[2],
                     value |-> r.val[3], timestamp_ms |-> r.val[4]])
    ELSE r

\* parse_sample asking for no whitespace before the value:
\* preceded(space0, value_parser).
parse_sample_space0(i) ==
    SampleEntry(
        terminated(
            <<"tuple", << <<"token_parser">>,
                          <<"labels_parser">>,
                          <<"preceded", <<"space0">>, <<"value_parser">>>>,
                          <<"opt", <<"preceded", <<"space1">>, <<"timestamp_parser">>>>>>
                       >> >>,
            <<"line_ending">>,
            i))

parse_sample(i) ==
    SampleEntry(
        terminated(
            <<"tuple", << <<"token_parser">>,
                          <<"labels_parser">>,
                          <<"preceded", <<"space1">>, <<"value_parser">>>>,
                          <<"opt", <<"preceded", <<"space1">>, <<"timestamp_parser">>>>>>
                       >> >>,
            <<"line_ending">>,
            i))

\* The parser a tuple names, run on i.
apply(p, i) ==
    CASE p[1] = "tag"              -> tag(p[2], i)
      [] p[1] = "char"             -> char(p[2], i)
      [] p[1] = "newline"          -> newline(i)
      [] p[1] = "space0"           -> space0(i)
      [] p[1] = "space1"           -> space1(i)
      [] p[1] = "line_ending"      -> line_ending(i)
      [] p[1] = "not_line_ending"  -> not_line_ending(i)
      [] p[1] = "opt"              -> opt(i, apply(p[2], i))
      [] p[1] = "preceded"         -> preceded(p[2], p[3], i)
      [] p[1] = "tuple"            -> tuple(p[2], i)
      [] p[1] = "token_parser"     -> token_parser(i)
      [] p[1] = "type_keyword"     -> type_keyword(i)
      [] p[1] = "metric_parser"    -> metric_parser(i)
      [] p[1] = "value_parser"     -> value_parser(i)
      [] p[1] = "timestamp_parser" -> timestamp_parser(i)
      [] p[1] = "fold_tag_value"   -> fold_tag_value(i, <<>>)
      [] p[1] = "tag_value_parser" -> tag_value_parser(i)
      [] p[1] = "label_pair"       -> label_pair(i)
      [] p[1] = "separated_list"   -> separated_list(i)
      [] p[1] = "list_parser"      -> list_parser(i)
      [] p[1] = "labels_parser"    -> labels_parser(i)

(***************************************************************************)
(* Line classifier and aggregation (lib.rs, types.rs)                      *)
(***************************************************************************)
\* |l| LineType::Comment(l) or LineType::Sample(l), r being the result of
\* the parser.
LineType(kind, r) == IF r.ok THEN Ok(r.rest, <<kind, r.val>>) ELSE r

\* The text up to and including the first line feed (n characters before
\* it) taken for an empty line.
skip_line(i, n) ==
    IF n < Len(i) THEN Ok(Drop(i, n + 1), <<"Empty">>) ELSE Error(i, "CrLf")

\* parse_line recovering from a line it cannot classify: the text up to
\* the next line feed is skipped as if it were an empty line.
parse_line_skip(i) ==
    alt(LineType("Comment", comment_parser(i)),
        alt(LineType("Sample", parse_sample(i)),
            alt(value(<<"Empty">>, empty_line_parser(i)),
                skip_line(i, Span(Chars \ {"\n"}, i)))))

\* LineType: <<"Comment", c>>, <<"Sample", s>> or <<"Empty">>.
parse_line(i) ==
    alt(LineType("Comment", comment_parser(i)),
        alt(LineType("Sample", parse_sample(i)),
            value(<<"Empty">>, empty_line_parser(i))))

\* Metric::new leaving the type given aside: every new Metric is Untyped.
Metric_new_untyped(name, t) == [name |-> name, data_type |-> "Untyped", samples |-> <<>>]

\* Metric::new
Metric_new(name, t) == [name |-> name, data_type |-> t, samples |-> <<>>]

\* push_sample with the new sample put first instead of last.
push_sample_front(self, s) == [self EXCEPT !.samples = <<s>> \o @]

\* Metric::push_sample
push_sample(self, s) == [self EXCEPT !.samples = Append(@, s)]

\* impl Into<Sample> for SampleEntry
into_Sample(s) ==
    [labels |-> s.labels, value |-> s.value, timestamp |-> s.timestamp_ms]

\* Into<Metric> leaving the name of the new Metric empty.
into_Metric_unnamed(s) ==
    [name |-> <<>>, data_type |-> "Untyped",
     samples |-> << [labels |-> s.labels, value |-> s.value,
                     timestamp |-> s.timestamp_ms] >>]

\* impl Into<Metric> for SampleEntry
into_Metric(s) ==
    [name |-> s.name, data_type |-> "Untyped", samples |-> <<into_Sample(s)>>]

\* Metric::append_sample_entry, past its assertion
append_sample_entry(self, s) == push_sample(self, into_Sample(s))

\* append_type_def keeping the type the Metric already has (first write wins).
append_type_def_keep(self, s, t) == self

\* append_type_def taking a second declaration of a declared Metric for a
\* conflict and falling back to Untyped.
append_type_def_conflict(self, s, t) ==
    [self EXCEPT !.data_type = IF @ = "Untyped" THEN t ELSE "Untyped"]

\* append_type_def starting the Metric afresh with the declared type, its
\* samples dropped.
append_type_def_clear(self, s, t) == [self EXCEPT !.data_type = t, !.samples = <<>>]

\* Metric::append_type_def, past its assertion
append_type_def(self, s, t) == [self EXCEPT !.data_type = t]

\* HashMap::insert
insert(map, k, v) == [x \in DOMAIN map \cup {k} |-> IF x = k THEN v ELSE map[x]]

\* add_comment without its else branch: a declaration of a name not yet in
\* the map is lost.
add_comment_no_insert(map, c) ==
    IF c[1] = "Type" /\ c[2] \in DOMAIN map
    THEN [map EXCEPT ![c[2]] = [@ EXCEPT !.data_type = c[3]]]
    ELSE map

\* add_comment starting the map afresh on a comment that is no type
\* declaration.
add_comment_reset(map, c) ==
    IF c[1] = "Type"
    THEN IF c[2] \in DOMAIN map
         THEN [map EXCEPT ![c[2]] = [@ EXCEPT !.data_type = c[3]]]
         ELSE [x \in DOMAIN map \cup {c[2]} |->
                  IF x = c[2] THEN [name |-> c[2], data_type |-> c[3], samples |-> <<>>]
                  ELSE map[x]]
    ELSE <<>>

add_comment(map, c) ==
    IF c[1] = "Type"
    THEN IF c[2] \in DOMAIN map
         THEN [map EXCEPT ![c[2]] = append_type_def(@, c[2], c[3])]
         ELSE insert(map, c[2], Metric_new(c[2], c[3]))
    ELSE map

add_sample(map, s) ==
    IF s.name \in DOMAIN map
    THEN [map EXCEPT ![s.name] = append_sample_entry(@, s)]
    ELSE insert(map, s.name, into_Metric(s))

\* Does one of the assert_eq! of append_sample_entry / append_type_def fail
\* when line l is merged into map?
assert_fails(map, l) ==
    \/ l[1] = "Sample" /\ l[2].name \in DOMAIN map
                       /\ map[l[2].name].name # l[2].name
    \/ l[1] = "Comment" /\ l[2][1] = "Type" /\ l[2][2] \in DOMAIN map
                        /\ map[l[2][2]].name # l[2][2]

\* The body of the for loop of parse_complete on a classified line.
merge_line(map, l) ==
    CASE l[1] = "Comment" -> add_comment(map, l[2])
      [] l[1] = "Sample"  -> add_sample(map, l[2])
      [] OTHER            -> map

\* The UTF-8 bytes of a string.
RECURSIVE Bytes(_)
Bytes(s) == IF Len(s) = 0 THEN <<>> ELSE Utf8(s[1]) \o Bytes(Tail(s))

RECURSIVE cmp_bytes(_, _)
cmp_bytes(a, b) ==
    IF Len(a) = 0 /\ Len(b) = 0 THEN "Equal"
    ELSE IF Len(a) = 0 THEN "Less"
    ELSE IF Len(b) = 0 THEN "Greater"
    ELSE IF a[1] < b[1] THEN "Less"
    ELSE IF a[1] > b[1] THEN "Greater"
    ELSE cmp_bytes(Tail(a), Tail(b))

\* cmp with its operands exchanged, as in b.name.cmp(&a.name).
cmp_reversed(a, b) == cmp_bytes(Bytes(b), Bytes(a))

\* String::cmp: lexicographic on bytes
cmp(a, b) == cmp_bytes(Bytes(a), Bytes(b))

\* The order sort_unstable_by(|a, b| a.name.cmp(&b.name)) leaves v in.
is_sorted_by_name(v) ==
    \A j \in 1..(Len(v) - 1) : cmp(v[j].name, v[j + 1].name) # "Greater"

\* acc.drain().map(|(_, v)| v).collect(): the values of the map, each once,
\* in an order the HashMap chooses.
drain(map) ==
    LET n == Cardinality(DOMAIN map)
    IN  { [j \in 1..n |-> map[p[j]]] :
            p \in { q \in [1..n -> DOMAIN map] :
                      \A j, k \in 1..n : q[j] = q[k] => j = k } }

\* The vectors parse_complete can return for the final map: a drain order,
\* sorted by name.
sorted_results(map) == { v \in drain(map) : is_sorted_by_name(v) }

(***************************************************************************)
(* Inputs: texts of the exposition format, written line by line            *)
(***************************************************************************)
\* # TYPE a counter\n
LineTypeACounter ==
    <<"#"," ","T","Y","P","E"," ","a"," ","c","o","u","n","t","e","r","\n">>

\* # TYPE a\n
LineTypeA ==
    <<"#"," ","T","Y","P","E"," ","a","\n">>

\* # TYPE b gauge\n
LineTypeBGauge ==
    <<"#"," ","T","Y","P","E"," ","b"," ","g","a","u","g","e","\n">>

\* a 1\n
LineSampleA ==
    <<"a"," ","1","\n">>

\* a{q="x"} 2 3\n
LineSampleALabelled ==
    <<"a","{","q","=","\"","x","\"","}"," ","2"," ","3","\n">>

\* b 1\n
LineSampleB ==
    <<"b"," ","1","\n">>

\* c 1\n
LineSampleC ==
    <<"c"," ","1","\n">>

\* # HELP a t\n
LineHelpA ==
    <<"#"," ","H","E","L","P"," ","a"," ","t","\n">>

\* \n
LineBlank ==
    <<"\n">>

\* #c\n
LineComment ==
    <<"#","c","\n">>

\*  \t\n
LineSpaces ==
    <<" ","\t","\n">>

\* # TYPE a sometype\n
LineTypeASometype ==
    <<"#"," ","T","Y","P","E"," ","a"," ","s","o","m","e","t","y","p","e",
      "\n">>

\* # TYPE a  summary \n
LineTypeATrailing ==
    <<"#"," ","T","Y","P","E"," ","a"," "," ","s","u","m","m","a","r","y"," ",
      "\n">>

\* # TYPE b histogram\n
LineTypeBHistogram ==
    <<"#"," ","T","Y","P","E"," ","b"," ","h","i","s","t","o","g","r","a","m",
      "\n">>

\* # TYPE c untyped\n
LineTypeCUntyped ==
    <<"#"," ","T","Y","P","E"," ","c"," ","u","n","t","y","p","e","d","\n">>

\* # HELP d t\n
LineHelpD ==
    <<"#"," ","H","E","L","P"," ","d"," ","t","\n">>

\* a\n
LineBareName ==
    <<"a","\n">>

\* a1234\n
LineNoSpace ==
    <<"a","1","2","3","4","\n">>

\* a{q="x"}1\n
LineNoSpaceLabelled ==
    <<"a","{","q","=","\"","x","\"","}","1","\n">>

\* a 1
LineNoLineBreak ==
    <<"a"," ","1">>

\* a {q="x"} 1\n
LineSpaceBeforeLabels ==
    <<"a"," ","{","q","=","\"","x","\"","}"," ","1","\n">>

\* a x\n
LineBadValue ==
    <<"a"," ","x","\n">>

\* a 1 x\n
LineBadTimestamp ==
    <<"a"," ","1"," ","x","\n">>

\* B 1\n
LineSampleUpper ==
    <<"B"," ","1","\n">>

\* ab 2.50\n
LineSampleAb ==
    <<"a","b"," ","2",".","5","0","\n">>

\* U+00E9 1\n
LineSampleLatin ==
    <<"U+00E9"," ","1","\n">>

\* aU+0663 1\n
LineSampleArabicDigit ==
    <<"a","U+0663"," ","1","\n">>

\* a NaN\n
LineSampleNaN ==
    <<"a"," ","N","a","N","\n">>

\* b{q="\\\\\\n\\""} +Inf -5\n
LineSampleInf ==
    <<"b","{","q","=","\"","\\","\\","\\","n","\\","\"","\"","}"," ","+","I",
      "n","f"," ","-","5","\n">>

\* c{q="x",r="y",} 1e-3\n
LineSampleExp ==
    <<"c","{","q","=","\"","x","\"",",","r","=","\"","y","\"",",","}"," ","1",
      "e","-","3","\n">>

\* a{q="x",q="y"} 1\n
LineDuplicateLabel ==
    <<"a","{","q","=","\"","x","\"",",","q","=","\"","y","\"","}"," ","1",
      "\n">>

\* a{q="x",r="z",q="y"} 1\n
LineDuplicateLabelOther ==
    <<"a","{","q","=","\"","x","\"",",","r","=","\"","z","\"",",","q","=",
      "\"","y","\"","}"," ","1","\n">>

\* \r\n
LineCrLf ==
    <<"\r","\n">>

\* Lines every one of which parse_line accepts.
AggLines ==
    {LineTypeACounter,
     LineTypeA,
     LineTypeBGauge,
     LineSampleA,
     LineSampleALabelled,
     LineSampleB,
     LineSampleC,
     LineHelpA,
     LineBlank}

\* Further lines, among them lines parse_line rejects.
AnyLines ==
    AggLines \cup
    {LineComment,
     LineSpaces,
     LineTypeASometype,
     LineTypeATrailing,
     LineTypeBHistogram,
     LineTypeCUntyped,
     LineHelpD,
     LineBareName,
     LineNoSpace,
     LineNoSpaceLabelled,
     LineNoLineBreak,
     LineSpaceBeforeLabels,
     LineBadValue,
     LineBadTimestamp,
     LineSampleUpper,
     LineSampleAb,
     LineSampleLatin,
     LineSampleArabicDigit,
     LineSampleNaN,
     LineSampleInf,
     LineSampleExp,
     LineDuplicateLabel,
     LineDuplicateLabelOther,
     LineCrLf}

\* the input of test_parse_summary, the metric named n
InputParseSummary ==
    <<"\n","#"," ","T","Y","P","E"," ","n"," ","s","u","m","m","a","r","y",
      "\n","n"," ","{","q","u","a","n","t","i","l","e","=","\"","0",".","5",
      "\"","}"," ","0","\n","\n","#"," ","T","Y","P","E"," ","n"," ","s","u",
      "m","m","a","r","y","\n","n"," ","{","q","u","a","n","t","i","l","e",
      "=","\"","0",".","7","5","\"","}"," ","1","2","3","\n","\n","#"," ","T",
      "Y","P","E"," ","n"," ","s","u","m","m","a","r","y","\n","n"," ","{",
      "q","u","a","n","t","i","l","e","=","\"","0",".","9","5","\"","}"," ",
      "5","0","\n">>

\* the input of test_parse_summary without its blank lines
InputParseSummaryNoBlank ==
    <<"#"," ","T","Y","P","E"," ","n"," ","s","u","m","m","a","r","y","\n",
      "n"," ","{","q","u","a","n","t","i","l","e","=","\"","0",".","5","\"",
      "}"," ","0","\n","#"," ","T","Y","P","E"," ","n"," ","s","u","m","m",
      "a","r","y","\n","n"," ","{","q","u","a","n","t","i","l","e","=","\"",
      "0",".","7","5","\"","}"," ","1","2","3","\n","#"," ","T","Y","P","E",
      " ","n"," ","s","u","m","m","a","r","y","\n","n"," ","{","q","u","a",
      "n","t","i","l","e","=","\"","0",".","9","5","\"","}"," ","5","0","\n">>

\* the input of test_parse_summary with the label block right after the name
InputParseSummaryTight ==
    <<"\n","#"," ","T","Y","P","E"," ","n"," ","s","u","m","m","a","r","y",
      "\n","n","{","q","u","a","n","t","i","l","e","=","\"","0",".","5","\"",
      "}"," ","0","\n","\n","#"," ","T","Y","P","E"," ","n"," ","s","u","m",
      "m","a","r","y","\n","n","{","q","u","a","n","t","i","l","e","=","\"",
      "0",".","7","5","\"","}"," ","1","2","3","\n","\n","#"," ","T","Y","P",
      "E"," ","n"," ","s","u","m","m","a","r","y","\n","n","{","q","u","a",
      "n","t","i","l","e","=","\"","0",".","9","5","\"","}"," ","5","0","\n">>

\* the input of test_parse_complete, the metrics named h and r
InputParseComplete ==
    <<"\n","#"," ","H","E","L","P"," ","h"," ","T","h","e"," ","t","o","t",
      "a","l",".","\n","#"," ","T","Y","P","E"," ","h"," ","c","o","u","n",
      "t","e","r","\n","h","{","m","e","t","h","o","d","=","\"","p","o","s",
      "t","\"",",","c","o","d","e","=","\"","2","0","0","\"","}"," ","1","0",
      "2","7"," ","1","3","9","5","0","6","6","3","6","3","0","0","0","\n",
      "h","{","m","e","t","h","o","d","=","\"","p","o","s","t","\"",",","c",
      "o","d","e","=","\"","4","0","0","\"","}"," ","1","0","2","8"," ","1",
      "3","9","5","0","6","6","3","6","3","0","0","0","\n","\n","r"," ","2",
      "6","9","3","\n">>

\* a declaration and a sample, a bare name, another sample
InputFailAfterValid ==
    <<"#"," ","T","Y","P","E"," ","a"," ","c","o","u","n","t","e","r","\n",
      "a"," ","1","\n","a","\n","b"," ","1","\n">>

\* a sample of b, a sample of a, a declaration of a, a second sample of a
InputDeclaredBetween ==
    <<"b"," ","1","\n","a"," ","1","\n",
      "#"," ","T","Y","P","E"," ","a"," ","c","o","u","n","t","e","r","\n",
      "a","{","q","=","\"","x","\"","}"," ","2"," ","3","\n">>

Fixtures ==
    {InputParseSummary, InputParseSummaryNoBlank, InputParseSummaryTight,
     InputParseComplete, InputFailAfterValid, InputDeclaredBetween}

\* The longest input of lines of AggLines, and of lines of AnyLines.
MaxLines == 3

MaxAnyLines == 2

SeqsUpTo(S, n) == UNION { [1..k -> S] : k \in 0..n }

RECURSIVE Flatten(_)
Flatten(ls) == IF Len(ls) = 0 THEN <<>> ELSE Head(ls) \o Flatten(Tail(ls))

Inputs ==
    { Flatten(ls) : ls \in SeqsUpTo(AggLines, MaxLines) }
    \cup { Flatten(ls) : ls \in SeqsUpTo(AnyLines, MaxAnyLines) }
    \cup Fixtures

(***************************************************************************)
(* parse_complete as a state machine: one step per item of InputIter       *)
(***************************************************************************)
VARIABLES
    input,  \* the argument of parse_complete
    rest,   \* InputIter.0, the input not yet consumed
    acc,    \* the HashMap from name to Metric
    lines,  \* the LineType values InputIter has yielded so far
    pc,     \* "loop", or how the call ended: "done", "error", "panic"
    ret     \* <<>>, or the value returned: <<"Ok", vec>> or <<"Err", at, kind>>

vars == <<input, rest, acc, lines, pc, ret>>

EmptyMap == <<>>

Init ==
    /\ input \in Inputs
    /\ rest = input
    /\ acc = EmptyMap
    /\ lines = <<>>
    /\ pc = "loop"
    /\ ret = <<>>

\* InputIter::next yields Some(Ok(l)) and the loop body merges l.
Merge(r) ==
    /\ rest' = r.rest
    /\ lines' = Append(lines, r.val)
    /\ IF assert_fails(acc, r.val)
       THEN pc' = "panic" /\ UNCHANGED <<acc, ret>>
       ELSE acc' = merge_line(acc, r.val) /\ UNCHANGED <<pc, ret>>
    /\ UNCHANGED input

\* parse_line gave r: a line of the given kind, which is merged.
Yields(kind, r) == r.ok /\ r.val[1] = kind /\ Merge(r)

\* parse_line gave r: an error, which `l?` returns; the map is dropped.
Fails(r) ==
    /\ ~r.ok
    /\ ret' = <<"Err", r.rest, r.val>>
    /\ pc' = "error"
    /\ acc' = EmptyMap
    /\ UNCHANGED <<input, rest, lines>>

NextComment ==
    /\ pc = "loop" /\ Len(rest) # 0
    /\ Yields("Comment", parse_line(rest))

NextSample ==
    /\ pc = "loop" /\ Len(rest) # 0
    /\ Yields("Sample", parse_line(rest))

NextEmpty ==
    /\ pc = "loop" /\ Len(rest) # 0
    /\ Yields("Empty", parse_line(rest))

\* InputIter::next yields Some(Err(e)).
NextErr ==
    /\ pc = "loop" /\ Len(rest) # 0
    /\ Fails(parse_line(rest))

\* InputIter::next yields None: the map is drained, sorted and returned.
Finish ==
    /\ pc = "loop" /\ Len(rest) = 0
    /\ \E v \in sorted_results(acc) : ret' = <<"Ok", v>>
    /\ pc' = "done"
    /\ acc' = EmptyMap
    /\ UNCHANGED <<input, rest, lines>>

Next == NextComment \/ NextSample \/ NextEmpty \/ NextErr \/ Finish

Spec == Init /\ [][Next]_vars

\* The call has not returned.
Running == pc = "loop"

\* A step of Next is possible: the iterator is exhausted and the map can be
\* drained and sorted, or parse_line gives an error or one of the three
\* kinds of line.
CanStep ==
    \/ Len(rest) = 0 /\ sorted_results(acc) # {}
    \/ /\ Len(rest) # 0
       /\ parse_line(rest).ok => parse_line(rest).val[1] \in {"Comment", "Sample", "Empty"}

\* The call runs on: as long as it has not returned, the for loop of
\* parse_complete takes its next item or returns.  This is weak fairness
\* of Next, []<>(~ENABLED <<Next>>_vars) \/ []<><<Next>>_vars, with the
\* enabling condition written as the state predicate it is, Running.
LiveSpec == Spec /\ ([]<>(~Running) \/ []<><<Next>>_vars)

\* parse_complete as a function of its input.
RECURSIVE fold_input(_, _)
fold_line(map, r) ==
    IF ~r.ok THEN <<"Err", r.rest, r.val>>
    ELSE fold_input(r.rest, merge_line(map, r.val))

fold_input(i, map) ==
    IF Len(i) = 0 THEN <<"Ok", map>> ELSE fold_line(map, parse_line(i))

\* The value returned for the outcome f of the loop.
returned(f) ==
    IF f[1] = "Err" THEN f
    ELSE <<"Ok", CHOOSE v \in sorted_results(f[2]) : TRUE>>

parse_complete(i) == returned(fold_input(i, EmptyMap))

(***************************************************************************)
(* What the input says, read off the lines InputIter yielded               *)
(***************************************************************************)
IsSampleLine(l) == l[1] = "Sample"

IsTypeLine(l) == l[1] = "Comment" /\ l[2][1] = "Type"

\* The metric name a line mentions, as an Option.
LineName(l) ==
    IF IsSampleLine(l) THEN <<l[2].name>>
    ELSE IF IsTypeLine(l) THEN <<l[2][2]>>
    ELSE <<>>

MentionedNames(ls) ==
    { LineName(ls[j])[1] : j \in { k \in 1..Len(ls) : LineName(ls[k]) # <<>> } }

TypeLinesOf(ls, n) == { j \in 1..Len(ls) : IsTypeLine(ls[j]) /\ ls[j][2][2] = n }

SampleLinesOf(ls, n) == { j \in 1..Len(ls) : IsSampleLine(ls[j]) /\ ls[j][2].name = n }

MaxOf(S) == CHOOSE j \in S : \A k \in S : k <= j

\* The texts of the lines of input i, each with its line break; an
\* unclassifiable remainder is the last one.
RECURSIVE RawLines(_)
RawLinesFrom(i, r) ==
    IF ~r.ok THEN <<i>>
    ELSE <<Take(i, Len(i) - Len(r.rest))>> \o RawLines(r.rest)

RawLines(i) == IF Len(i) = 0 THEN <<>> ELSE RawLinesFrom(i, parse_line(i))

\* The words of a line: its maximal runs of characters other than space,
\* tab and line break.
RECURSIVE Words(_)
Words(t) ==
    LET Sep  == {" ", "\t", "\n", "\r"}
        skip == Drop(t, Span(Sep, t))
        n    == Span(Chars \ Sep, skip)
    IN  IF Len(skip) = 0 THEN <<>> ELSE <<Take(skip, n)>> \o Words(Drop(skip, n))

\* The type a `# TYPE name [keyword]` line carries, read from its text.
TypeCarried(text) ==
    LET w == Words(text)
    IN  IF Len(w) < 4 THEN "Untyped"
        ELSE CASE w[4] = <<"c","o","u","n","t","e","r">> -> "Counter"
               [] w[4] = <<"g","a","u","g","e">> -> "Gauge"
               [] w[4] = <<"h","i","s","t","o","g","r","a","m">> -> "Histogram"
               [] w[4] = <<"s","u","m","m","a","r","y">> -> "Summary"
               [] OTHER -> "Untyped"

\* The type the input declares last for name n, Untyped if it declares none.
LastDeclaredType(n) ==
    IF TypeLinesOf(lines, n) = {} THEN "Untyped"
    ELSE TypeCarried(RawLines(input)[MaxOf(TypeLinesOf(lines, n))])

\* The samples of the sample lines named n, in the order of the lines.
RECURSIVE SamplesOf(_, _)
SamplesOf(ls, n) ==
    IF Len(ls) = 0 THEN <<>>
    ELSE (IF IsSampleLine(Head(ls)) /\ Head(ls)[2].name = n
          THEN << [labels |-> Head(ls)[2].labels, value |-> Head(ls)[2].value,
                   timestamp |-> Head(ls)[2].timestamp_ms] >>
          ELSE <<>>) \o SamplesOf(Tail(ls), n)

Returned == pc = "done"

Result == ret[2]

(***************************************************************************)
(* Claims                                                                  *)
(***************************************************************************)
\* C1: when parse_complete succeeds, the returned Metrics are named exactly
\* by the names the sample lines and the type declarations of the input
\* mention, and no two returned Metrics have the same name.
C1_OneMetricPerName ==
    Returned =>
        /\ { Result[j].name : j \in 1..Len(Result) } = MentionedNames(lines)
        /\ \A j, k \in 1..Len(Result) : Result[j].name = Result[k].name => j = k

\* A successful parse of an input that mentions two names, one of them both
\* in a type declaration and in a later sample line, the other in a type
\* declaration only.
C1_Witness ==
    /\ Returned
    /\ Len(Result) = 2
    /\ \E n \in MentionedNames(lines) :
          /\ TypeLinesOf(lines, n) # {} /\ SampleLinesOf(lines, n) # {}
          /\ \E m \in MentionedNames(lines) :
                m # n /\ TypeLinesOf(lines, m) # {} /\ SampleLinesOf(lines, m) = {}

\* C2: when parse_complete succeeds, every returned Metric has the type of
\* the last type declaration of its name in the input (Untyped when that
\* line has no keyword), wherever the declaration stands relative to the
\* samples, and Untyped when the input declares no type for it.
C2_LastTypeWins ==
    Returned =>
        \A j \in 1..Len(Result) :
            Result[j].data_type = LastDeclaredType(Result[j].name)

\* A successful parse in which a Metric takes a type other than Untyped from
\* a declaration that follows one of its sample lines.
C2_Witness ==
    /\ Returned
    /\ \E j \in 1..Len(Result) :
          /\ Result[j].data_type # "Untyped"
          /\ \E k \in SampleLinesOf(lines, Result[j].name) :
                k < MaxOf(TypeLinesOf(lines, Result[j].name) \cup {0})

\* C3: when parse_complete succeeds, the samples of every returned Metric
\* are exactly the samples of the sample lines of its name, in input order,
\* none dropped, reordered or deduplicated.
C3_SamplesInInputOrder ==
    Returned =>
        \A j \in 1..Len(Result) :
            Result[j].samples = SamplesOf(lines, Result[j].name)

\* A successful parse in which a Metric holds two equal samples that come
\* from two sample lines with another line between them.
C3_Witness ==
    /\ Returned
    /\ \E j \in 1..Len(Result) :
          /\ Len(Result[j].samples) = 2
          /\ Result[j].samples[1] = Result[j].samples[2]
          /\ \E a, b \in SampleLinesOf(lines, Result[j].name) : b > a + 1

\* a < b in the lexicographic order of the UTF-8 bytes.
BytesLess(a, b) ==
    \E k \in 1..(Len(b)) :
        /\ k <= Len(a) + 1
        /\ \A j \in 1..(k - 1) : a[j] = b[j]
        /\ (k = Len(a) + 1 \/ a[k] < b[k])

\* The sequence ls with its elements j and j + 1 exchanged.
SwapAt(ls, j) ==
    [k \in 1..Len(ls) |-> IF k = j THEN ls[j + 1] ELSE IF k = j + 1 THEN ls[j] ELSE ls[k]]

\* C4: when parse_complete succeeds, the returned Metrics are in strictly
\* ascending byte-lexicographic order of name, and exchanging two adjacent
\* lines of the input that belong to different metric names leaves the
\* result unchanged.
C4_AscendingByName ==
    Returned =>
        /\ \A j \in 1..(Len(Result) - 1) :
              BytesLess(Bytes(Result[j].name), Bytes(Result[j + 1].name))
        /\ \A j \in 1..(Len(lines) - 1) :
              (/\ LineName(lines[j]) # <<>>
               /\ LineName(lines[j + 1]) # <<>>
               /\ LineName(lines[j]) # LineName(lines[j + 1]))
              => parse_complete(Flatten(SwapAt(RawLines(input), j))) = ret

\* A successful parse of an input that first mentions b, then a, then c,
\* returned as a, b, c.
C4_Witness ==
    /\ Returned
    /\ Len(lines) = 3
    /\ LineName(lines[1]) = << <<"b">> >>
    /\ LineName(lines[2]) = << <<"a">> >>
    /\ LineName(lines[3]) = << <<"c">> >>
    /\ Len(Result) = 3
    /\ Result[1].name = <<"a">> /\ Result[2].name = <<"b">> /\ Result[3].name = <<"c">>

\* Does one of comment / sample / blank match at the start of i?
Classifiable(i) ==
    comment_parser(i).ok \/ parse_sample(i).ok \/ empty_line_parser(i).ok

\* C5: parse_complete is all-or-nothing and fail-fast: a step taken at a
\* line that matches none of comment / sample / blank returns an error that
\* carries no Metric and consumes nothing more; success is returned only
\* with the whole input consumed; nothing happens after the return.
C5_FailFast ==
    [][ /\ pc = "loop"
        /\ (Len(rest) # 0 /\ ~Classifiable(rest))
              => /\ pc' = "error"
                 /\ Len(ret') = 3 /\ ret'[1] = "Err"
                 /\ rest' = rest /\ lines' = lines /\ acc' = EmptyMap
        /\ pc' = "done" => Len(rest) = 0
      ]_vars

\* The call has failed after a type declaration and a sample were merged,
\* and a line that would classify follows the rejected one unconsumed.
C5_Witness ==
    /\ pc = "error"
    /\ ret[1] = "Err"
    /\ \E j, k \in 1..Len(lines) : IsTypeLine(lines[j]) /\ IsSampleLine(lines[k])
    /\ ~Classifiable(rest)
    /\ \E k \in 1..(Len(rest) - 1) : rest[k] = "\n" /\ Classifiable(Drop(rest, k))

\* The first line of text i, without its line break.
FirstLine(i) == Take(i, Span(Chars \ {"\n"}, i))

TypeKeywords ==
    { <<"c","o","u","n","t","e","r">>, <<"g","a","u","g","e">>,
      <<"h","i","s","t","o","g","r","a","m">>, <<"u","n","t","y","p","e","d">>,
      <<"s","u","m","m","a","r","y">> }

\* Does i start with a line `# TYPE <name> <word>` whose word is none of the
\* five type keywords?
IsUnknownTypeWordLine(i) ==
    LET w == Words(FirstLine(i))
    IN  /\ Span(Chars \ {"\n"}, i) < Len(i)
        /\ Len(w) = 4
        /\ w[1] = <<"#">> /\ w[2] = <<"T","Y","P","E">>
        /\ token_parser(w[3]) = Ok(<<>>, w[3])
        /\ w[4] \notin TypeKeywords

\* C6: a line `# TYPE <name> <word>` whose word is none of the five type
\* keywords is rejected by comment_parser and parse_line, and parse_complete
\* returns an error.
C6_UnknownTypeWordRejected ==
    (pc = "loop" /\ IsUnknownTypeWordLine(rest)) =>
        /\ ~comment_parser(rest).ok
        /\ ~parse_line(rest).ok
        /\ parse_complete(input)[1] = "Err"

\* The sample `{quantile="q"} v` without timestamp.
QuantileSample(q, v) ==
    [labels |-> (<<"q","u","a","n","t","i","l","e">> :> q),
     value |-> Decimal(FALSE, v, 0), timestamp |-> <<>>]

\* What test_parse_summary expects: one Metric n of type Summary with the
\* three samples in input order.
ExpectedSummary ==
    <<"Ok",
      << [name |-> <<"n">>, data_type |-> "Summary",
          samples |-> << QuantileSample(<<"0",".","5">>, <<"0">>),
                         QuantileSample(<<"0",".","7","5">>, <<"1","2","3">>),
                         QuantileSample(<<"0",".","9","5">>, <<"5","0">>) >>] >> >>

\* C7: for the input of test_parse_summary (blank lines and three times a
\* `# TYPE n summary` line followed by `n {quantile="q"} v`, whitespace
\* between the name and the label block), parse_complete succeeds and
\* returns one Metric n of type Summary with the 3 samples in input order.
C7_SummaryScenario ==
    (input \in {InputParseSummary, InputParseSummaryNoBlank} /\ pc # "loop")
        => (pc = "done" /\ ret = ExpectedSummary)

\* A name directly followed by the line feed.
BareName(i) ==
    LET t == token_parser(i)
    IN  t.ok /\ Len(t.rest) > 0 /\ t.rest[1] = "\n"

\* A name and its label block, if any, followed by something that is no
\* horizontal whitespace.
NoSeparator(i) ==
    LET t == token_parser(i)
        l == labels_parser(t.rest)
    IN  t.ok /\ Len(l.rest) > 0 /\ ~IsSpace(l.rest[1])

\* A name at the start of a last line that no line feed ends.
Unterminated(i) ==
    token_parser(i).ok /\ \A k \in 1..Len(i) : i[k] # "\n"

\* C8: a sample line is rejected when its name is directly followed by the
\* line break, when no horizontal whitespace separates name/labels from the
\* value, or when no line break ends it; and parse_complete, reaching such
\* a line, returns an error and no Metric.
C8_MalformedSampleRejected ==
    [][ (/\ pc = "loop" /\ Len(rest) # 0
         /\ (BareName(rest) \/ NoSeparator(rest) \/ Unterminated(rest)))
        => (/\ ~parse_sample(rest).ok
            /\ pc' = "error"
            /\ Len(ret') = 3 /\ ret'[1] = "Err")
      ]_vars

\* The call has failed, after at least one line was merged, on a last line
\* `name value` that only lacks its line break.
C8_Witness ==
    /\ pc = "error"
    /\ ret[1] = "Err"
    /\ Len(lines) > 0
    /\ Unterminated(rest)
    /\ parse_sample(rest \o <<"\n">>).ok

\* The token grammar of the documentation: [a-zA-Z_:][a-zA-Z0-9_:]*
RegexHead == AsciiUpper \cup AsciiLower \cup {"_", ":"}

RegexTail == RegexHead \cup AsciiDigit

\* The length of the longest prefix of i the regular expression matches,
\* 0 if it matches none.
RegexMatch(i) ==
    IF Len(i) = 0 \/ i[1] \notin RegexHead THEN 0 ELSE Span(RegexTail, i)

\* C9: on every input token_parser returns exactly the longest prefix that
\* matches [A-Za-z_:][A-Za-z0-9_:]* and leaves the rest, and fails,
\* consuming nothing, when the first character is not in [A-Za-z_:].
C9_TokenIsAsciiRegex ==
    \A k \in 0..Len(input) :
        LET i == Drop(input, k)
            t == token_parser(i)
            n == RegexMatch(i)
        IN  IF n = 0 THEN ~t.ok /\ t.rest = i
            ELSE t.ok /\ t.val = Take(i, n) /\ t.rest = Drop(i, n)

\* The sequence ls with its element j repeated right after itself.
DuplicateAt(ls, j) == Take(ls, j) \o <<ls[j]>> \o Drop(ls, j)

\* C10: for an accepted input, a second copy of a type declaration line
\* inserted right after that line leaves the result of parse_complete
\* unchanged.
C10_TypeMergeIdempotent ==
    Returned =>
        \A j \in 1..Len(lines) :
            IsTypeLine(lines[j])
            => parse_complete(Flatten(DuplicateAt(RawLines(input), j))) = ret

\* A successful parse whose input declares a type other than Untyped for a
\* name between two sample lines of that name.
C10_Witness ==
    /\ Returned
    /\ \E j \in 1..Len(lines) :
          /\ IsTypeLine(lines[j])
          /\ lines[j][2][3] # "Untyped"
          /\ \E a, b \in SampleLinesOf(lines, lines[j][2][2]) : a < j /\ j < b

\* The pairs of the label block that starts at i, as written, in order.
BlockPairs(i) == separated_list(Drop(i, 1)).val

\* Does a label block start at i: `{`, pairs separated by commas, an
\* optional trailing comma, `}`?
IsLabelBlock(i) ==
    /\ Len(i) > 0 /\ i[1] = "{"
    /\ delimited(<<"char", "{">>, <<"list_parser">>, <<"char", "}">>, i).ok

HasDuplicateKey(l) == \E j, k \in 1..Len(l) : j < k /\ l[j][1] = l[k][1]

\* The value of the last pair of l whose key is k.
LastValue(l, k) == l[MaxOf({ j \in 1..Len(l) : l[j][1] = k })][2]

\* r, the result of labels_parser on the block at i with the pairs l, has
\* consumed the block up to its `}` and maps every key written to the
\* value of its last pair.
LastPairWins(i, l, r) ==
    /\ r.ok
    /\ Len(r.rest) < Len(i)
    /\ i[Len(i) - Len(r.rest)] = "}"
    /\ DOMAIN r.val = { l[j][1] : j \in 1..Len(l) }
    /\ \A k \in DOMAIN r.val : r.val[k] = LastValue(l, k)

\* C11: for every label block in which a label name occurs in several
\* pairs, labels_parser succeeds and the mapping holds that name once, with
\* the value of its last pair; the other names keep their own values.
C11_LastLabelWins ==
    \A k \in 1..Len(input) :
        (IsLabelBlock(Drop(input, k - 1)) /\ HasDuplicateKey(BlockPairs(Drop(input, k - 1))))
        => LastPairWins(Drop(input, k - 1), BlockPairs(Drop(input, k - 1)),
                        labels_parser(Drop(input, k - 1)))

\* A successful parse that returned a sample whose label block names q
\* twice with different values and r once between them.
C11_Witness ==
    /\ Returned
    /\ \E k \in 1..Len(input) :
          /\ IsLabelBlock(Drop(input, k - 1))
          /\ Len(BlockPairs(Drop(input, k - 1))) = 3
          /\ BlockPairs(Drop(input, k - 1))[1][1] = BlockPairs(Drop(input, k - 1))[3][1]
          /\ BlockPairs(Drop(input, k - 1))[1][2] # BlockPairs(Drop(input, k - 1))[3][2]
          /\ \E j \in 1..Len(Result) : \E m \in 1..Len(Result[j].samples) :
                /\ Cardinality(DOMAIN Result[j].samples[m].labels) = 2
                /\ Result[j].samples[m].labels = labels_parser(Drop(input, k - 1)).val

\* Between the maps a and b only the data_type of n differs, and it is t in b.
OnlyTypeChanged(a, b, n, t) ==
    /\ DOMAIN b = DOMAIN a
    /\ b[n].data_type = t
    /\ b[n].samples = a[n].samples
    /\ b[n].name = a[n].name
    /\ \A m \in DOMAIN a \ {n} : b[m] = a[m]

\* Between the maps a and b only the samples of n differ, and in b they are
\* those of a followed by the sample of the SampleEntry s.
OnlySampleAppended(a, b, n, s) ==
    /\ DOMAIN b = DOMAIN a
    /\ b[n].samples = a[n].samples \o
            << [labels |-> s.labels, value |-> s.value, timestamp |-> s.timestamp_ms] >>
    /\ b[n].data_type = a[n].data_type
    /\ b[n].name = a[n].name
    /\ \A m \in DOMAIN a \ {n} : b[m] = a[m]

\* The step from map a to map b that merged line l changed only what l names.
FrameOf(a, b, l) ==
    /\ (IsTypeLine(l) /\ l[2][2] \in DOMAIN a) => OnlyTypeChanged(a, b, l[2][2], l[2][3])
    /\ (IsSampleLine(l) /\ l[2].name \in DOMAIN a) => OnlySampleAppended(a, b, l[2].name, l[2])

\* C12: a type declaration of a name already present changes only that
\* Metric's data_type; a sample line of a name already present only appends
\* one sample at the end of that Metric's samples; every other Metric, and
\* the rest of the Metric named, stay as they were.
C12_StepsChangeOnlyWhatTheyName ==
    [][ (pc = "loop" /\ Len(lines') = Len(lines) + 1)
        => (pc' = "loop" /\ FrameOf(acc, acc', lines'[Len(lines')]))
      ]_vars

\* Two Metrics are held, one of them with a type other than Untyped that
\* was declared after its first sample and before its second.
C12_Witness ==
    /\ pc = "loop"
    /\ Cardinality(DOMAIN acc) = 2
    /\ \E n \in DOMAIN acc :
          /\ acc[n].data_type # "Untyped"
          /\ Len(acc[n].samples) = 2
          /\ \E j \in TypeLinesOf(lines, n) :
                \E a, b \in SampleLinesOf(lines, n) : a < j /\ j < b

\* A line that is neither a sample nor a type declaration: a `# HELP` line,
\* a generic comment or a blank line.
IsNeutralLine(l) == ~IsSampleLine(l) /\ ~IsTypeLine(l)

IsHelpLine(l) == l[1] = "Comment" /\ l[2][1] = "Help"

\* The sequence ls without its element j.
RemoveAt(ls, j) == Take(ls, j - 1) \o Drop(ls, j)

\* The name a `# HELP name text` line is about, read from its text, as an
\* Option.
HelpName(text) == IF Len(Words(text)) >= 3 THEN <<Words(text)[3]>> ELSE <<>>

\* C13: a `# HELP` line, a generic comment and a blank line leave the map
\* as it is; a name found only in `# HELP` lines is not in the result, and
\* an accepted input without one of these lines has the same result.
C13_NeutralLinesChangeNothing ==
    /\ (pc = "loop" /\ Len(lines) > 0 /\ IsNeutralLine(lines[Len(lines)]))
          => acc = fold_input(Flatten(Take(RawLines(input), Len(lines) - 1)), EmptyMap)[2]
    /\ Returned =>
          \A j \in 1..Len(lines) :
              IsNeutralLine(lines[j]) =>
                  /\ parse_complete(Flatten(RemoveAt(RawLines(input), j))) = ret
                  /\ IsHelpLine(lines[j]) =>
                        \A k \in 1..Len(Result) :
                            \/ <<Result[k].name>> # HelpName(RawLines(input)[j])
                            \/ Result[k].name \in MentionedNames(lines)

\* A successful parse that returned a Metric, of an input that holds a
\* `# HELP` line about a name no other line mentions.
C13_Witness ==
    /\ Returned
    /\ Len(Result) > 0
    /\ \E j \in 1..Len(lines) :
          /\ IsHelpLine(lines[j])
          /\ HelpName(RawLines(input)[j]) # <<>>
          /\ HelpName(RawLines(input)[j])[1] \notin MentionedNames(lines)
          /\ j > 1

\* Map b is map a with the one more Metric m, under the name n.
CreatedAs(a, b, n, m) ==
    /\ n \notin DOMAIN a
    /\ DOMAIN b = DOMAIN a \cup {n}
    /\ b[n] = m
    /\ \A x \in DOMAIN a : b[x] = a[x]

\* The step from map a to map b that merged line l, the first mention of
\* its name, created the Metric of that name.
FirstMention(a, b, l) ==
    /\ (IsTypeLine(l) /\ l[2][2] \notin DOMAIN a)
          => CreatedAs(a, b, l[2][2],
                       [name |-> l[2][2], data_type |-> l[2][3], samples |-> <<>>])
    /\ (IsSampleLine(l) /\ l[2].name \notin DOMAIN a)
          => CreatedAs(a, b, l[2].name,
                       [name |-> l[2].name, data_type |-> "Untyped",
                        samples |-> << [labels |-> l[2].labels, value |-> l[2].value,
                                        timestamp |-> l[2].timestamp_ms] >>])

\* C14: a Metric is created on the first mention of its name: by a type
\* declaration with the declared type and no sample, by a sample line as
\* Untyped with that one sample; and a name that only type declarations
\* mention is in the successful result with its declared type and no sample.
C14_CreatedOnFirstMention ==
    [][ /\ (pc = "loop" /\ Len(lines') = Len(lines) + 1)
              => FirstMention(acc, acc', lines'[Len(lines')])
        /\ pc' = "done"
              => \A n \in MentionedNames(lines) :
                    SampleLinesOf(lines, n) = {}
                    => \E j \in 1..Len(ret'[2]) :
                          ret'[2][j] = [name |-> n, data_type |-> LastDeclaredType(n),
                                        samples |-> <<>>]
      ]_vars

\* A successful parse that returned a Metric of a type other than Untyped
\* without samples, and before it in the input a name that a sample line
\* mentioned first and a type declaration later.
C14_Witness ==
    /\ Returned
    /\ \E j \in 1..Len(Result) :
          /\ Result[j].samples = <<>>
          /\ Result[j].data_type # "Untyped"
    /\ \E n \in MentionedNames(lines) :
          /\ SampleLinesOf(lines, n) # {} /\ TypeLinesOf(lines, n) # {}
          /\ \A t \in TypeLinesOf(lines, n) : \E k \in SampleLinesOf(lines, n) : k < t

\* b is what is left of a after a line was consumed up to and including
\* its line feed.
ConsumedOneLine(a, b) ==
    /\ Len(b) < Len(a)
    /\ b = Drop(a, Len(a) - Len(b))
    /\ a[Len(a) - Len(b)] = "\n"

\* C15: the driver terminates: a step that classifies a line consumes it,
\* line feed included, so the remaining input shrinks; success is returned
\* exactly when nothing remains, after as many steps as the input has
\* lines (the empty input gives an empty sequence); an error is returned
\* exactly at the first remainder that classifies as nothing, and nothing
\* follows it.
C15_DriverTerminates ==
    /\ [][ /\ pc = "loop"
           /\ pc' = "loop" => (Classifiable(rest) /\ ConsumedOneLine(rest, rest'))
           /\ pc' = "done" <=> Len(rest) = 0
           /\ pc' = "done" => (ret'[1] = "Ok" /\ Len(RawLines(input)) = Len(lines))
           /\ pc' = "error" <=> (Len(rest) # 0 /\ ~Classifiable(rest))
           /\ pc' = "error" => (ret'[1] = "Err" /\ rest' = rest)
         ]_vars
    /\ []((input = <<>> /\ pc # "loop") => ret = <<"Ok", <<>>>>)
    /\ [](Running => CanStep)
    /\ <>(pc \in {"done", "error"})

\* A successful return with nothing left, after a blank line, a comment
\* and a sample were each consumed.
C15_Witness ==
    /\ Returned
    /\ Len(rest) = 0
    /\ \E j, k, m \in 1..Len(lines) :
          lines[j][1] = "Empty" /\ lines[k][1] = "Comment" /\ lines[m][1] = "Sample"

\* The lines before line j that mention the name n.
MentionsBefore(ls, n, j) ==
    { k \in 1..(j - 1) : LineName(ls[k]) = <<n>> }

\* C16: every key of the map is the name of the Metric stored under it, so
\* the assert_eq! of append_sample_entry and of append_type_def hold on
\* every line merged and parse_complete never aborts on them.
C16_KeyIsName ==
    /\ \A k \in DOMAIN acc : acc[k].name = k
    /\ pc # "panic"
    /\ (Running /\ Len(rest) # 0 /\ parse_line(rest).ok)
          => ~assert_fails(acc, parse_line(rest).val)

\* A Metric is held that both a type declaration and a sample line found
\* already present, so that both assertions were evaluated on it.
C16_Witness ==
    /\ Running
    /\ \E n \in DOMAIN acc :
          /\ acc[n].name = n
          /\ \E j \in TypeLinesOf(lines, n) : MentionsBefore(lines, n, j) # {}
          /\ \E j \in SampleLinesOf(lines, n) : MentionsBefore(lines, n, j) # {}

=============================================================================
